---------------------------- MODULE Spec2Model ----------------------------
(***************************************************************************)
(* A model of pagerank.py: transition_model, sample_pagerank and           *)
(* iterate_pagerank over a corpus as crawl() returns it.                   *)
(*                                                                         *)
(* Python floats are modelled as exact non-negative reals.  Every number   *)
(* the program computes from the modelled inputs is a finite expansion in  *)
(* radix K = 30000 (all divisors are products of 2, 3 and 5), so a real is *)
(* kept as its integer part and the sequence of its fractional digits,     *)
(* most significant first, without trailing zeros.  The operators below    *)
(* compute +, -, *, / and < on that representation digit by digit.         *)
(***************************************************************************)
EXTENDS Integers, Sequences, FiniteSets

\* ------------------------------------------------------------------------
\* Bounds of the model.

\* The corpus holds at most MaxPages pages, named 1..N.
MaxPages == 3

\* sample_pagerank is called with n in 0..MaxSamples.
MaxSamples == 3

\* ------------------------------------------------------------------------
\* Exact arithmetic.

\* The radix of the digit expansion: 2^4 * 3 * 5^4.
K == 30 * 1000

Zero == [i |-> 0, f |-> <<>>]
One == [i |-> 1, f |-> <<>>]

\* The j-th fractional digit of the digit sequence s.
Digit(s, j) == IF j <= Len(s) THEN s[j] ELSE 0

Longer(s, t) == IF Len(s) > Len(t) THEN Len(s) ELSE Len(t)

\* The index of the last non-zero digit of s, 0 when there is none.
LastNonZero(s) ==
    IF \A j \in 1..Len(s) : s[j] = 0 THEN 0
    ELSE CHOOSE m \in 1..Len(s) :
            s[m] # 0 /\ \A j \in (m + 1)..Len(s) : s[j] = 0

\* s without its trailing zeros.  (Here and below an operand is bound to its
\* value by `v \in {operand}` before its digits are read.)
StripZeros(s) ==
    CHOOSE r \in {SubSeq(v, 1, LastNonZero(v)) : v \in {s}} : TRUE

\* The carries of a sequence of digit sums: the sequence whose j-th element
\* is the carry out of the digits j..Len(sums) (negative for a borrow), and
\* whose last element is 0.
Carries(sums) ==
    CHOOSE c \in
        {LET from[j \in 1..(Len(d) + 1)] ==
                 IF j = Len(d) + 1 THEN <<0>>
                 ELSE CHOOSE r \in
                         {<<(d[j] + rest[1]) \div K>> \o rest
                          : rest \in {from[j + 1]}} : TRUE
         IN  from[1]
         : d \in {sums}} : TRUE

\* The real with integer part ip and fractional digit sums d, each digit
\* brought back into 0..K-1.
Carried(ip, sums) ==
    CHOOSE r \in
        {[i |-> ip + c[1],
          f |-> StripZeros([j \in 1..Len(d) |-> (d[j] + c[j + 1]) % K])]
         : d \in {sums}, c \in {Carries(sums)}} : TRUE

\* x + y
RAdd(x, y) ==
    CHOOSE r \in
        {Carried(a.i + b.i,
                 [j \in 1..Longer(a.f, b.f) |-> Digit(a.f, j) + Digit(b.f, j)])
         : a \in {x}, b \in {y}} : TRUE

\* x - y, for x >= y
RSub(x, y) ==
    CHOOSE r \in
        {Carried(a.i - b.i,
                 [j \in 1..Longer(a.f, b.f) |-> Digit(a.f, j) - Digit(b.f, j)])
         : a \in {x}, b \in {y}} : TRUE

\* x < y
RLess(x, y) ==
    \E a \in {x}, b \in {y} :
        \/ a.i < b.i
        \/ /\ a.i = b.i
           /\ \E j \in 1..Longer(a.f, b.f) :
                /\ Digit(a.f, j) < Digit(b.f, j)
                /\ \A h \in 1..(j - 1) : Digit(a.f, h) = Digit(b.f, h)

\* abs(x - y)
RAbsDiff(x, y) ==
    CHOOSE r \in
        {IF RLess(a, b) THEN RSub(b, a) ELSE RSub(a, b) : a \in {x}, b \in {y}}
        : TRUE

\* x * c for a natural number c <= K
RMulInt(x, c) ==
    CHOOSE r \in
        {Carried(a.i * c, [j \in 1..Len(a.f) |-> a.f[j] * c]) : a \in {x}}
        : TRUE

\* x / K^j, for j >= 1 and an integer part of x below K * K
RShift(x, j) ==
    CHOOSE r \in
        {IF j = 1
         THEN [i |-> a.i \div K, f |-> StripZeros(<<a.i % K>> \o a.f)]
         ELSE [i |-> 0,
               f |-> StripZeros([h \in 1..(j - 2) |-> 0]
                                \o <<a.i \div K, a.i % K>> \o a.f)]
         : a \in {x}} : TRUE

\* x * y, as the sum of x times each digit of y
RMulDigits(x, y) ==
    CHOOSE r \in
        {LET partial[j \in 1..(Len(b.f) + 1)] ==
                 IF j = Len(b.f) + 1 THEN RMulInt(a, b.i)
                 ELSE RAdd(RShift(RMulInt(a, b.f[j]), j), partial[j + 1])
         IN  partial[1]
         : a \in {x}, b \in {y}} : TRUE

\* x * y, summed over the digits of the operand that has fewer of them
RMul(x, y) ==
    CHOOSE r \in
        {IF Len(a.f) < Len(b.f) THEN RMulDigits(b, a) ELSE RMulDigits(a, b)
         : a \in {x}, b \in {y}} : TRUE

\* The remainders of the long division of x by m: the j-th element is what
\* remains after the integer part and the first j - 1 digits.
Remainders(x, m) ==
    CHOOSE c \in
        {LET upto[j \in 0..Len(a.f)] ==
                 IF j = 0 THEN <<a.i % m>>
                 ELSE CHOOSE r \in
                         {prev \o <<(prev[j] * K + a.f[j]) % m>>
                          : prev \in {upto[j - 1]}} : TRUE
         IN  upto[Len(a.f)]
         : a \in {x}} : TRUE

\* The quotient of x by m, from the remainders of the long division.
Quotient(x, m) ==
    CHOOSE r \in
        {[i |-> a.i \div m,
          f |-> StripZeros([j \in 1..(Len(a.f) + 1) |->
                               (rem[j] * K + Digit(a.f, j)) \div m])]
         : a \in {x}, rem \in {Remainders(x, m)}} : TRUE

\* x / m for a natural number m > 0 that divides K, by long division: the
\* quotient has at most one digit more than x.
RDivInt(x, m) ==
    CHOOSE r \in {CASE K % m = 0 -> Quotient(a, m) : a \in {x}} : TRUE

\* the real num / den
Ratio(num, den) == RDivInt([i |-> num, f |-> <<>>], den)

\* ------------------------------------------------------------------------
\* Inputs.

\* DAMPING = 0.85
DAMPING == Ratio(85, 100)

\* The convergence threshold 0.001 of iterate_pagerank.
Threshold == Ratio(1, 1000)

\* The damping factors the functions are called with: the program's own,
\* two others in (0,1), and 0, which lies outside (0,1).
Dampings == {Zero, Ratio(1, 1000), Ratio(1, 2), DAMPING}

\* What crawl() returns: every page maps to a set of other pages of the corpus.
Corpora ==
    UNION {{c \in [1..N -> SUBSET (1..N)] : \A p \in 1..N : p \notin c[p]} :
           N \in 0..MaxPages}

\* ------------------------------------------------------------------------
\* State.

VARIABLES
    corpus,          \* the corpus crawl() returned
    pc,              \* "main", "sample_loop", "iterate_loop", "returned", "raised"
    op,              \* the function called: "none" before the call
    damping_factor,  \* the argument damping_factor
    page,            \* the argument page of transition_model
    n,               \* the argument n of sample_pagerank
    pagerank,        \* the local pagerank of either estimator
    new_pagerank,    \* the local new_pagerank of iterate_pagerank
    current_sample,  \* the local current_sample of sample_pagerank
    i,               \* the loop counter of sample_pagerank
    result,          \* the value returned, once pc = "returned"
    error            \* the exception raised, once pc = "raised"

vars == <<corpus, pc, op, damping_factor, page, n, pagerank, new_pagerank,
          current_sample, i, result, error>>

Keys(c) == DOMAIN c

\* ------------------------------------------------------------------------
\* transition_model

\* A slip in transition_model: the link share is damping / all_pages.
transition_model_ShareOverAll(c, pg, d) ==
    LET all_pages == Cardinality(Keys(c))
        linked_pages == IF pg \in Keys(c) THEN Cardinality(c[pg]) ELSE 0
        base == RDivInt(RSub(One, d), all_pages)
    IN  [current_page \in Keys(c) |->
            IF linked_pages # 0 /\ current_page \in c[pg]
            THEN RAdd(base, RDivInt(d, all_pages))
            ELSE base]

transition_model(c, pg, d) ==
    LET all_pages == Cardinality(Keys(c))
        linked_pages == IF pg \in Keys(c) THEN Cardinality(c[pg]) ELSE 0
        base == RDivInt(RSub(One, d), all_pages)
    IN  [current_page \in Keys(c) |->
            IF linked_pages # 0 /\ current_page \in c[pg]
            THEN RAdd(base, RDivInt(d, linked_pages))
            ELSE base]

Init ==
    /\ corpus \in Corpora
    /\ pc = "main"
    /\ op = "none"
    /\ damping_factor = Zero
    /\ page = 0
    /\ n = 0
    /\ pagerank = <<>>
    /\ new_pagerank = <<>>
    /\ current_sample = 0
    /\ i = 0
    /\ result = <<>>
    /\ error = "none"

\* transition_model(corpus, pg, d) is called and returns.
CallTransitionModel ==
    /\ pc = "main"
    /\ \E pg \in 0..MaxPages, d \in Dampings :
        /\ op' = "transition_model"
        /\ page' = pg
        /\ damping_factor' = d
        /\ result' = transition_model(corpus, pg, d)
    /\ pc' = "returned"
    /\ UNCHANGED <<corpus, n, pagerank, new_pagerank, current_sample, i, error>>

\* ------------------------------------------------------------------------
\* sample_pagerank

\* pagerank[page] += current_distribution[page] / n, for every page
Accumulate(pr, dist, num) ==
    [pg \in DOMAIN pr |-> RAdd(pr[pg], RDivInt(dist[pg], num))]

\* What random.choices(population, weights) can return: an element of
\* positive weight.  (With the damping factors modelled every weight is
\* positive, so the call never raises for a total of zero.)
Choices(dist) == {pg \in DOMAIN dist : RLess(Zero, dist[pg])}

\* sample_pagerank(corpus, d, num) is called and runs up to its loop:
\* random.choice raises IndexError on an empty sequence.
CallSamplePagerank ==
    /\ pc = "main"
    /\ op' = "sample_pagerank"
    /\ \E d \in Dampings, num \in 0..MaxSamples :
        /\ damping_factor' = d
        /\ n' = num
    /\ pagerank' = [pg \in Keys(corpus) |-> Zero]
    /\ i' = 0
    /\ IF Keys(corpus) = {}
       THEN /\ pc' = "raised"
            /\ error' = "IndexError"
            /\ UNCHANGED current_sample
       ELSE /\ pc' = "sample_loop"
            /\ current_sample' \in Keys(corpus)
            /\ UNCHANGED error
    /\ UNCHANGED <<corpus, page, new_pagerank, result>>

\* One pass of `for i in range(n-1)`.
SampleStep ==
    /\ pc = "sample_loop"
    /\ i < n - 1
    /\ LET current_distribution ==
               transition_model(corpus, current_sample, damping_factor)
       IN  /\ pagerank' = Accumulate(pagerank, current_distribution, n)
           /\ current_sample' \in Choices(current_distribution)
    /\ i' = i + 1
    /\ UNCHANGED <<corpus, pc, op, damping_factor, page, n, new_pagerank,
                   result, error>>

\* The loop is over: return pagerank.
SampleReturn ==
    /\ pc = "sample_loop"
    /\ ~(i < n - 1)
    /\ result' = pagerank
    /\ pc' = "returned"
    /\ UNCHANGED <<corpus, op, damping_factor, page, n, pagerank, new_pagerank,
                   current_sample, i, error>>

\* ------------------------------------------------------------------------
\* iterate_pagerank

\* new_pagerank[pg] after the inner loop `for i in corpus.keys()` has run
\* over the pages from..num, starting from acc.
RECURSIVE AddInLinks(_, _, _, _, _, _, _)
AddInLinks(c, pr, d, pg, from, num, acc) ==
    IF from > num THEN acc
    ELSE AddInLinks(c, pr, d, pg, from + 1, num,
            IF pg \in c[from]
            THEN RAdd(acc, RDivInt(RMul(d, pr[from]), Cardinality(c[from])))
            ELSE acc)

\* A slip in the outer loop: the ranks are updated in place, so a page
\* reads the ranks already updated in the same round.
RECURSIVE UpdateInPlace(_, _, _, _, _)
UpdateInPlace(c, pr, d, pg, num) ==
    IF pg > num THEN pr
    ELSE UpdateInPlace(c,
            [pr EXCEPT ![pg] = AddInLinks(c, pr, d, pg, 1, num,
                                          RDivInt(RSub(One, d), num))],
            d, pg + 1, num)

NewPagerank_InPlace(c, pr, d) == UpdateInPlace(c, pr, d, 1, Cardinality(Keys(c)))

\* new_pagerank after the loop `for page in corpus.keys()`
NewPagerank(c, pr, d) ==
    LET num == Cardinality(Keys(c))
    IN  [pg \in Keys(c) |->
            AddInLinks(c, pr, d, pg, 1, num, RDivInt(RSub(One, d), num))]

\* A slip in the comparison: `> 0.001` for `>= 0.001`.
Converged_NonStrict(new, pr) ==
    ~\E pg \in DOMAIN pr : RLess(Threshold, RAbsDiff(new[pg], pr[pg]))

\* converged, after the loop that compares new_pagerank with pagerank
Converged(new, pr) ==
    ~\E pg \in DOMAIN pr : ~RLess(RAbsDiff(new[pg], pr[pg]), Threshold)

\* A slip in the initialisation: pagerank[page] = 1 for every page.
InitialRank_Unscaled(c) == [pg \in Keys(c) |-> One]

\* pagerank after the loop `for page in corpus.keys(): pagerank[page] = 1/N`
InitialRank(c) == [pg \in Keys(c) |-> RDivInt(One, Cardinality(Keys(c)))]

\* iterate_pagerank(corpus, d) is called and runs up to `while True`.
CallIteratePagerank ==
    /\ pc = "main"
    /\ op' = "iterate_pagerank"
    /\ \E d \in Dampings : damping_factor' = d
    /\ pagerank' = InitialRank(corpus)
    /\ pc' = "iterate_loop"
    /\ UNCHANGED <<corpus, page, n, new_pagerank, current_sample, i, result,
                   error>>

\* A slip in the loop: `pagerank = new_pagerank` is missing.
IterateRound_NoReplace ==
    /\ pc = "iterate_loop"
    /\ new_pagerank' = NewPagerank(corpus, pagerank, damping_factor)
    /\ IF Converged(new_pagerank', pagerank)
       THEN /\ result' = pagerank
            /\ pc' = "returned"
       ELSE UNCHANGED <<pc, result>>
    /\ UNCHANGED <<corpus, op, damping_factor, page, n, pagerank,
                   current_sample, i, error>>

\* One pass of `while True`: compute new_pagerank, then either return
\* pagerank or replace it by new_pagerank.
IterateRound ==
    /\ pc = "iterate_loop"
    /\ new_pagerank' = NewPagerank(corpus, pagerank, damping_factor)
    /\ IF Converged(new_pagerank', pagerank)
       THEN /\ result' = pagerank
            /\ pc' = "returned"
            /\ UNCHANGED pagerank
       ELSE /\ pagerank' = new_pagerank'
            /\ UNCHANGED <<pc, result>>
    /\ UNCHANGED <<corpus, op, damping_factor, page, n, current_sample, i,
                   error>>

Next ==
    \/ CallTransitionModel
    \/ CallSamplePagerank
    \/ SampleStep
    \/ SampleReturn
    \/ CallIteratePagerank
    \/ IterateRound

Spec == Init /\ [][Next]_vars

\* iterate_pagerank alone.
IterateNext ==
    \/ CallIteratePagerank
    \/ IterateRound

IterateSpec == Init /\ [][IterateNext]_vars

\* The interpreter keeps executing the loop while it has not returned.
FairIterateSpec == IterateSpec /\ WF_vars(IterateRound)

\* ------------------------------------------------------------------------
\* Definitions the properties are stated with.

NumPages == Cardinality(Keys(corpus))

Returned(f) == op = f /\ pc = "returned"

\* a <= b
RLeq(a, b) == ~RLess(b, a)

\* d lies in (0,1)
ValidDamping(d) == RLess(Zero, d) /\ RLess(d, One)

\* The sum of term[x] over the elements x of set.
RECURSIVE SumOver(_, _)
SumOver(term, set) ==
    IF set = {} THEN Zero
    ELSE LET x == CHOOSE y \in set : TRUE
         IN  RAdd(term[x], SumOver(term, set \ {x}))

\* The sum of the values of a distribution or rank vector.
Total(dist) == SumOver(dist, DOMAIN dist)

\* The pages that link to pg.
LinkingTo(c, pg) == {q \in Keys(c) : pg \in c[q]}

\* The recurrence as the specification writes it:
\* (1 - damping) / N + damping * (sum over the pages q linking to pg of
\* rank[q] / outdegree(q)).
Recurrence(c, rank, d) ==
    LET share == [q \in Keys(c) |->
                     IF c[q] = {} THEN Zero
                     ELSE RDivInt(rank[q], Cardinality(c[q]))]
    IN  [pg \in Keys(c) |->
            RAdd(RDivInt(RSub(One, d), Cardinality(Keys(c))),
                 RMul(d, SumOver(share, LinkingTo(c, pg))))]

\* Every page's change from rank to next is below 0.001.
AllBelowThreshold(next, rank) ==
    \A pg \in DOMAIN rank : RLess(RAbsDiff(next[pg], rank[pg]), Threshold)

\* For each page, the sum over the pages q linking to it of 1/outdegree(q)
\* is 1.
Balanced(c) ==
    LET inv == [q \in Keys(c) |->
                   IF c[q] = {} THEN Zero ELSE RDivInt(One, Cardinality(c[q]))]
    IN  \A pg \in Keys(c) : SumOver(inv, LinkingTo(c, pg)) = One

\* |x - 1| <= tol
NearOne(x, tol) == RLeq(RAbsDiff(x, One), tol)

\* ------------------------------------------------------------------------
\* Properties.

\* C1: for a non-empty corpus, any page argument and a damping factor in
\* (0,1), the values transition_model returns sum to 1.
C1_DistributionSumsToOne ==
    (Returned("transition_model") /\ NumPages > 0
        /\ ValidDamping(damping_factor))
    => Total(result) = One

\* C2: when the page has no outbound links (or is not a key of the corpus),
\* transition_model gives every page exactly 1/N.
C2_DanglingUniform ==
    (Returned("transition_model") /\ NumPages > 0
        /\ (page \notin Keys(corpus) \/ corpus[page] = {}))
    => \A pg \in Keys(corpus) : result[pg] = Ratio(1, NumPages)

\* C3: for a non-empty corpus, a damping factor in (0,1) and n >= 1, the
\* ranks sample_pagerank returns sum to 1 within 1e-3, whatever pages the
\* walk drew.
C3_SampleSumsToOne ==
    (Returned("sample_pagerank") /\ NumPages > 0
        /\ ValidDamping(damping_factor) /\ n >= 1)
    => NearOne(Total(result), Ratio(1, 1000))

\* C4: for a non-empty corpus and a damping factor in (0,1), the ranks
\* iterate_pagerank returns sum to 1 within 1e-6.
C4_IterateSumsToOne ==
    (Returned("iterate_pagerank") /\ NumPages > 0
        /\ ValidDamping(damping_factor))
    => NearOne(Total(result), RDivInt(Ratio(1, 1000), 1000))

\* C5: an estimator called with an empty corpus, with a damping factor
\* outside (0,1) or (sample_pagerank) with n <= 0 returns no rank vector.
C5_PreconditionsRejected ==
    (/\ op \in {"sample_pagerank", "iterate_pagerank"}
     /\ \/ NumPages = 0
        \/ ~ValidDamping(damping_factor)
        \/ op = "sample_pagerank" /\ n <= 0)
    => pc # "returned"

\* C6: for a non-empty corpus and a damping factor in (0,1), the loop of
\* iterate_pagerank eventually finds every change below 0.001 and returns.
C6_IterateTerminates ==
    (op = "iterate_pagerank" /\ NumPages > 0 /\ ValidDamping(damping_factor))
    ~> (pc = "returned")

\* C6 witness: iterate_pagerank has returned, for a valid input, after more
\* than one round of the loop.
C6_Witness ==
    /\ Returned("iterate_pagerank")
    /\ NumPages > 0
    /\ ValidDamping(damping_factor)
    /\ result # InitialRank(corpus)

\* C7: on a corpus where each page's in-links weigh 1 in total, and with a
\* damping factor in (0,1), iterate_pagerank returns exactly 1/N for every
\* page.
C7_BalancedUniform ==
    (Returned("iterate_pagerank") /\ NumPages > 0
        /\ ValidDamping(damping_factor) /\ Balanced(corpus))
    => \A pg \in Keys(corpus) : result[pg] = Ratio(1, NumPages)

\* C7 witness: iterate_pagerank has returned on the cycle 1 -> 2 -> 3 -> 1
\* with damping 0.85.
C7_Witness ==
    /\ Returned("iterate_pagerank")
    /\ corpus = <<{2}, {3}, {1}>>
    /\ Balanced(corpus)
    /\ damping_factor = DAMPING

\* C8: when the page has L > 0 outbound links, transition_model returns one
\* entry per page of the corpus: (1 - damping)/N + damping/L for a page
\* linked from it, (1 - damping)/N for every other page.  Stated without
\* division: N * L * p = L * (1 - damping) + N * damping, N * p = 1 - damping.
C8_LinkedDistribution ==
    (Returned("transition_model") /\ page \in Keys(corpus)
        /\ corpus[page] # {})
    => LET L == Cardinality(corpus[page])
       IN  /\ DOMAIN result = Keys(corpus)
           /\ \A pg \in Keys(corpus) :
                IF pg \in corpus[page]
                THEN RMulInt(result[pg], NumPages * L)
                     = RAdd(RMulInt(RSub(One, damping_factor), L),
                            RMulInt(damping_factor, NumPages))
                ELSE RMulInt(result[pg], NumPages)
                     = RSub(One, damping_factor)

\* C8 witness: transition_model has returned for a page with outbound links
\* that does not link to every other page, with damping 0.85.
C8_Witness ==
    /\ Returned("transition_model")
    /\ page \in Keys(corpus)
    /\ corpus[page] # {}
    /\ \E pg \in Keys(corpus) : pg # page /\ pg \notin corpus[page]
    /\ damping_factor = DAMPING

C10_ConvergenceCheck ==
    [][pc = "iterate_loop" =>
        /\ (pc' = "returned") <=> AllBelowThreshold(new_pagerank', pagerank)
        /\ pc' # "returned" => (pc' = "iterate_loop" /\ pagerank' = new_pagerank')
        /\ pc' = "returned" =>
            /\ result' = pagerank
            /\ AllBelowThreshold(
                   Recurrence(corpus, result', damping_factor), result')
     ]_vars

\* C10 witness: iterate_pagerank has returned after a first round that
\* changed a page's rank by exactly 0.001 and was followed by another round.
C10_Witness ==
    /\ Returned("iterate_pagerank")
    /\ NumPages > 0
    /\ result # InitialRank(corpus)
    /\ \E pg \in Keys(corpus) :
        RAbsDiff(Recurrence(corpus, InitialRank(corpus), damping_factor)[pg],
                 InitialRank(corpus)[pg]) = Threshold
    /\ \A pg \in Keys(corpus) :
        RLeq(RAbsDiff(Recurrence(corpus, InitialRank(corpus), damping_factor)[pg],
                      InitialRank(corpus)[pg]), Threshold)

====
